---- MODULE Spec2Model ----
(***************************************************************************)
(* Model of the "log-notes-with-isbn" command of src/src/main.ts: the grid *)
(* synchronizer that appends new movie notes to the grid block of the      *)
(* note "list of all movies" and moves their posters.                      *)
(*                                                                         *)
(* Text is a sequence of tokens (a token is an indivisible run of          *)
(* characters); paths are token sequences with "/" tokens.  Values read    *)
(* from the metadata cache are JavaScript values: undefined, a string or   *)
(* an array of strings.                                                    *)
(***************************************************************************)
EXTENDS Naturals, Sequences, FiniteSets

VARIABLES
    files,          \* the vault's markdown files, in getMarkdownFiles() order
    assets,         \* poster file id -> its current path (<<>>: no such file)
    dirs,           \* the directories adapter.mkdir has created
    pc,             \* position of the callback: "idle", "moving", "writing"
    listFile,       \* index in files of the Index Note of this run
    content,        \* the Index Note's text as read at line 94
    newMovies,      \* the new movies of this run (line 113)
    k,              \* the loop position in newMovies (line 125)
    movedCount,     \* line 122
    movieGridData,  \* line 123
    seen,           \* per pass of the loop: what the vault answered and the
                    \* operations of that pass
    notice,         \* the last Notice shown
    ops,            \* the vault operations of the current/last run, in order
    moves,          \* poster file id -> number of vault.rename calls on it
    runs,           \* number of runs started
    changes,        \* number of notes added by the user
    pre,            \* the vault at the start of the current/last run
    repeat,         \* the current/last run started right after another run
    dirty           \* a note was added since the last run ended

vars == <<files, assets, dirs, pc, listFile, content, newMovies, k, movedCount,
          movieGridData, seen, notice, ops, moves, runs, changes, pre, repeat, dirty>>

MaxRuns == 2
MaxNotes == 2

-----------------------------------------------------------------------------
(* JavaScript values and strings                                           *)

NL == "\n"
\* the token of three backtick characters, which opens and closes a block
Fence == "<fence>"
JsUndef == [t |-> "undef", s |-> <<>>, a |-> <<>>]
JsStr(s) == [t |-> "str", s |-> s, a |-> <<>>]
JsArr(a) == [t |-> "arr", s |-> <<>>, a |-> a]

\* ToBoolean: undefined and '' are falsy, arrays and other strings truthy
Truthy(v) == v.t = "arr" \/ (v.t = "str" /\ v.s # <<>>)

RECURSIVE JoinSeqs(_, _)
JoinSeqs(ss, sep) ==
    IF ss = <<>> THEN <<>>
    ELSE IF Len(ss) = 1 THEN ss[1]
    ELSE ss[1] \o sep \o JoinSeqs(Tail(ss), sep)

\* ToString, as a template literal ${v} applies it
ToStr(v) ==
    IF v.t = "undef" THEN <<"undefined">>
    ELSE IF v.t = "str" THEN v.s
    ELSE JoinSeqs(v.a, <<",">>)

IsWs(t) == t \in {" ", NL}

\* String.prototype.trim
RECURSIVE TrimStart(_)
TrimStart(s) == IF s # <<>> /\ IsWs(s[1]) THEN TrimStart(Tail(s)) ELSE s
RECURSIVE TrimEnd(_)
TrimEnd(s) ==
    IF s # <<>> /\ IsWs(s[Len(s)]) THEN TrimEnd(SubSeq(s, 1, Len(s) - 1)) ELSE s
Trim(s) == TrimEnd(TrimStart(s))

\* String.prototype.split(sep) for a one-token separator
RECURSIVE SplitFrom(_, _, _)
SplitFrom(s, sep, cur) ==
    IF s = <<>> THEN <<cur>>
    ELSE IF s[1] = sep THEN <<cur>> \o SplitFrom(Tail(s), sep, <<>>)
    ELSE SplitFrom(Tail(s), sep, Append(cur, s[1]))
Split(s, sep) == SplitFrom(s, sep, <<>>)

StartsAt(s, pat, i) ==
    /\ i >= 1
    /\ i + Len(pat) - 1 <= Len(s)
    /\ \A j \in 1..Len(pat) : s[i + j - 1] = pat[j]

\* the first position >= from at which pat occurs in s, 0 when there is none
IndexOf(s, pat, from) ==
    LET hits == {i \in from..Len(s) : StartsAt(s, pat, i)}
    IN IF hits = {} THEN 0 ELSE CHOOSE i \in hits : \A j \in hits : i <= j

LastIndexOf(s, tok) ==
    LET hits == {i \in 1..Len(s) : s[i] = tok}
    IN IF hits = {} THEN 0 ELSE CHOOSE i \in hits : \A j \in hits : i >= j

\* GetSubstitution: the replacement patterns $$, $& and $1 of
\* String.prototype.replace (the text alphabet has no token for the patterns
\* that stand for the text before and after the match)
RECURSIVE Expand(_, _, _, _, _)
Expand(repl, matched, before, after, groups) ==
    IF repl = <<>> THEN <<>>
    ELSE LET t == repl[1]
             out == IF t = "$$" THEN <<"$">>
                    ELSE IF t = "$&" THEN matched
                    ELSE IF t = "$1" /\ Len(groups) >= 1 THEN groups[1]
                    ELSE <<t>>
         IN out \o Expand(Tail(repl), matched, before, after, groups)

NoMatch == [found |-> FALSE, start |-> 0, end |-> 0, groups |-> <<>>]

\* s.replace(regex, repl) for a regex without the g flag: the first match only
ReplaceMatch(s, m, repl) ==
    IF ~m.found THEN s
    ELSE LET before == SubSeq(s, 1, m.start - 1)
             matched == SubSeq(s, m.start, m.end)
             after == SubSeq(s, m.end + 1, Len(s))
         IN before \o Expand(repl, matched, before, after, m.groups) \o after

-----------------------------------------------------------------------------
(* Regular expressions                                                     *)

\* gridBlockRegex: the first opening fence tagged grid that has a closing
\* fence after it, up to the first such closing fence (the group is lazy)
GridBlockMatch(s) ==
    LET open == IndexOf(s, <<Fence, "grid", NL>>, 1)
        close == IF open = 0 THEN 0 ELSE IndexOf(s, <<Fence>>, open + 3)
    IN IF open = 0 \/ close = 0 THEN NoMatch
       ELSE [found |-> TRUE, start |-> open, end |-> close,
             groups |-> <<SubSeq(s, open + 3, close - 1)>>]

\* tokens holding one of the characters of [.*+?^${}()|[\]\\]
RegexSpecials ==
    {".", "*", "+", "?", "^", "$", "{", "}", "(", ")", "|", "[", "]", "\\",
     "$$", "$&", "$1"}

\* posterPath.replace(/[.*+?^${}()|[\]\\]/g, '\\$&')
RECURSIVE EscapeRegExp(_)
EscapeRegExp(s) ==
    IF s = <<>> THEN <<>>
    ELSE (IF s[1] \in RegexSpecials THEN <<"\\", s[1]>> ELSE <<s[1]>>)
         \o EscapeRegExp(Tail(s))

\* new RegExp(source): an escaped token is a literal, an unescaped "." matches
\* any token, any other unescaped special matches no text of a note
RECURSIVE Compile(_)
Compile(src) ==
    IF src = <<>> THEN <<>>
    ELSE IF src[1] = "\\" /\ Len(src) >= 2
         THEN <<[kind |-> "lit", t |-> src[2]]>> \o Compile(Tail(Tail(src)))
    ELSE IF src[1] = "."
         THEN <<[kind |-> "any", t |-> "."]>> \o Compile(Tail(src))
    ELSE IF src[1] \in RegexSpecials
         THEN <<[kind |-> "never", t |-> src[1]]>> \o Compile(Tail(src))
    ELSE <<[kind |-> "lit", t |-> src[1]]>> \o Compile(Tail(src))

AtomMatches(atom, tok) ==
    \/ atom.kind = "any" /\ tok # NL
    \/ atom.kind = "lit" /\ atom.t = tok

\* the first match of the compiled pattern in s
RegexFind(s, atoms) ==
    LET hits == {i \in 1..Len(s) :
                    /\ i + Len(atoms) - 1 <= Len(s)
                    /\ \A j \in 1..Len(atoms) : AtomMatches(atoms[j], s[i + j - 1])}
    IN IF hits = {} \/ atoms = <<>> THEN NoMatch
       ELSE LET i == CHOOSE h \in hits : \A j \in hits : h <= j
            IN [found |-> TRUE, start |-> i, end |-> i + Len(atoms) - 1,
                groups |-> <<>>]

\* new RegExp of poster: ${posterPath.replace(...)}
PosterRegex(posterPath) == Compile(<<"poster: ">> \o EscapeRegExp(posterPath))

-----------------------------------------------------------------------------
(* The vault                                                               *)

Slash == "/"
Comma == ","

Path(dir, name) == dir \o <<Slash>> \o name

\* line 121
postersDestDir == <<"olabola-site", Slash, "content", Slash, "posters">>

JawsJpg == <<"jaws", ".", "jpg">>
UpJpg == <<"up", ".", "jpg">>
CashJpg == <<"ca", "$$", "h", ".", "jpg">>

\* the poster files of the vault before the first run
FileIds == {"f1", "f2", "f3", "f4", "f5"}
InitAssets ==
    [f \in FileIds |->
        CASE f = "f1" -> Path(<<"assets">>, JawsJpg)
          [] f = "f2" -> Path(<<"art">>, JawsJpg)
          [] f = "f3" -> Path(postersDestDir, UpJpg)
          [] f = "f4" -> Path(<<"assets">>, CashJpg)
          [] f = "f5" -> Path(<<"assets">>, UpJpg)]

NoPoster == JsUndef

Frontmatter(isbn, poster, dates) == [isbn |-> isbn, poster |-> poster, dates |-> dates]

\* the text of a note whose frontmatter holds the poster as written by style
NoteText(poster, style) ==
    <<"---", NL>>
    \o (IF poster.t # "str" THEN <<>>
        ELSE IF style = "quoted"
             THEN <<"poster: ", "\"">> \o poster.s \o <<"\"", NL>>
        ELSE <<"poster: ">> \o poster.s \o <<NL>>)
    \o <<"---">>

Note(folder, basename, fm, style) ==
    [folder |-> folder, basename |-> basename, cache |-> fm,
     content |-> NoteText(fm.poster, style)]

Isbn == JsStr(<<"0000">>)

\* the notes a user may add to the vault
NoteTemplates ==
    { Note("a", <<"Jaws">>,
           Frontmatter(Isbn, JsStr(Path(<<"assets">>, JawsJpg)), JsStr(<<"1975-06-20">>)),
           "plain"),
      Note("b", <<"Jaws">>,
           Frontmatter(Isbn, JsStr(Path(<<"art">>, JawsJpg)), JsArr(<<<<"2001">>, <<"2002">>>>)),
           "plain"),
      Note("a", <<"Up">>,
           Frontmatter(Isbn, JsStr(Path(<<"assets">>, UpJpg)), JsArr(<<>>)),
           "plain"),
      Note("b", <<"Up">>,
           Frontmatter(Isbn, JsStr(Path(postersDestDir, UpJpg)), JsArr(<<<<>>>>)),
           "plain"),
      Note("a", <<"Alien">>,
           Frontmatter(Isbn, JsStr(Path(<<"assets">>, JawsJpg)), JsStr(<<"1979">>)),
           "quoted"),
      Note("a", <<"A", Comma, "B">>,
           Frontmatter(Isbn, JsStr(Path(<<"assets">>, JawsJpg)), JsUndef),
           "plain"),
      Note("a", <<"Ca", "$$", "h">>,
           Frontmatter(Isbn, JsStr(Path(<<"art">>, JawsJpg)), JsStr(<<"2010">>)),
           "plain"),
      Note("a", <<"Bu", "$$", "ted">>,
           Frontmatter(Isbn, NoPoster, JsUndef),
           "plain"),
      Note("a", <<"Draft">>,
           Frontmatter(JsStr(<<>>), JsStr(Path(<<"art">>, JawsJpg)), JsStr(<<"1999">>)),
           "plain"),
      Note("a", <<"Ghost">>,
           Frontmatter(Isbn, JsStr(Path(<<"assets">>, <<"none", ".", "jpg">>)), JsStr(<<"1990">>)),
           "plain"),
      Note("a", <<"Cash">>,
           Frontmatter(Isbn, JsStr(Path(<<"assets">>, CashJpg)), JsStr(<<"1983">>)),
           "plain") }

ListBasename == <<"list of all movies">>

JawsLine == <<"Jaws", Comma, "posters", Slash>> \o JawsJpg \o <<Comma, "1975-06-20">>
HeatLine == <<"Heat", Comma, Comma, "1995">>
CashLine == <<"Ca", "$$", "h", Comma, Comma, "2010">>

\* the texts the Index Note may hold before the first run
IndexTexts ==
    { <<"# Movies", NL, "no block">>,
      <<"# Movies", NL, Fence, "grid", NL>> \o JawsLine \o <<NL>>,
      <<"# Movies", NL, Fence, "grid", NL, Fence, NL, "footer">>,
      <<"# Movies", NL, Fence, "grid", NL>> \o JawsLine \o <<NL, Fence, NL, "footer">>,
      <<Fence, "grid", NL>> \o CashLine \o <<NL, Fence, NL, "footer">>,
      <<Fence, "grid", NL, " ">> \o HeatLine \o <<NL>> \o JawsLine \o <<NL, Fence>>,
      <<Fence, "grid", NL>> \o HeatLine \o <<NL, Fence, NL, Fence, "grid", NL>>
          \o JawsLine \o <<NL, Fence>> }

IndexNote(text) ==
    [folder |-> "root", basename |-> ListBasename,
     cache |-> Frontmatter(JsUndef, NoPoster, JsUndef), content |-> text]

InitFiles ==
    {<<>>} \cup {<<IndexNote(t)>> : t \in IndexTexts}

NotePath(n) == <<n.folder, Slash>> \o n.basename \o <<".md">>

-----------------------------------------------------------------------------
(* The host's vault and metadata cache                                     *)

\* vault.getAbstractFileByPath over the poster files: a file id or "none"
GetAbstractFileByPath(as, p) ==
    IF \E f \in FileIds : as[f] = p /\ p # <<>>
    THEN CHOOSE f \in FileIds : as[f] = p
    ELSE "none"

\* vault.adapter.exists
Exists(as, ds, p) == (\E f \in FileIds : as[f] = p) \/ p \in ds

\* the poster the metadata cache holds once the host has parsed text again
ParsePoster(text) ==
    LET i == IndexOf(text, <<"poster: ">>, 1)
        nl == IF i = 0 THEN 0 ELSE IndexOf(text, <<NL>>, i)
        last == IF nl = 0 THEN Len(text) ELSE nl - 1
    IN IF i = 0 THEN JsUndef
       ELSE JsStr(SelectSeq(SubSeq(text, i + 1, last), LAMBDA t : t # "\""))

\* vault.modify(file, text): the text is stored and the cache follows it
Modify(fs, i, text) ==
    [fs EXCEPT ![i] = [@ EXCEPT !.content = text,
                                !.cache = [@ EXCEPT !.poster = ParsePoster(text)]]]

OpMkdir(p) == [op |-> "mkdir", path |-> p, to |-> <<>>]
OpRename(p, q) == [op |-> "rename", path |-> p, to |-> q]
OpModify(p) == [op |-> "modify", path |-> p, to |-> <<>>]

-----------------------------------------------------------------------------
(* The callback of log-notes-with-isbn                                     *)

\* line 81
DateStr(dates) ==
    IF dates.t = "arr"
    THEN (IF Len(dates.a) >= 1 THEN JsStr(dates.a[1]) ELSE JsUndef)
    ELSE IF Truthy(dates) THEN dates ELSE JsStr(<<>>)

\* lines 76-84: one entry per file with a truthy isbn, in file order
RECURSIVE AllMoviesFrom(_, _)
AllMoviesFrom(fs, i) ==
    IF i > Len(fs) THEN <<>>
    ELSE (IF Truthy(fs[i].cache.isbn)
          THEN <<[title |-> fs[i].basename, date |-> DateStr(fs[i].cache.dates),
                  file |-> i, cache |-> fs[i].cache]>>
          ELSE <<>>)
         \o AllMoviesFrom(fs, i + 1)
AllMovies(fs) == AllMoviesFrom(fs, 1)

\* line 87: the first file named "list of all movies", 0 when there is none
FindListFile(fs) ==
    LET hits == {i \in 1..Len(fs) : fs[i].basename = ListBasename}
    IN IF hits = {} THEN 0 ELSE CHOOSE i \in hits : \A j \in hits : i <= j

\* lines 106-110
ExistingMovies(existingContent) ==
    LET lines == Split(existingContent, NL)
    IN {Split(lines[i], Comma)[1] : i \in {j \in 1..Len(lines) : Trim(lines[j]) # <<>>}}

\* line 113
NewMovies(all, existing) == SelectSeq(all, LAMBDA m : m.title \notin existing)

OutcomeIgnoringGrid(lf, m, new) ==
    IF lf = 0 THEN "nolist"
    ELSE IF Len(new) = 0 THEN "nonew"
    ELSE "go"

\* lines 88-118: where the callback returns, or "go" when it goes on
Outcome(lf, m, new) ==
    IF lf = 0 THEN "nolist"
    ELSE IF ~m.found THEN "nogrid"
    ELSE IF Len(new) = 0 THEN "nonew"
    ELSE "go"

\* line 132: posterPath.split('/').pop()
FileName(posterPath) ==
    LET parts == Split(posterPath, Slash) IN parts[Len(parts)]

\* line 133
DestPath(fileName) == postersDestDir \o <<Slash>> \o fileName

\* line 139
DestDir(destPath) == SubSeq(destPath, 1, LastIndexOf(destPath, Slash) - 1)

DestExistsNever(as, ds, destPath) == FALSE

\* line 136
DestExists(as, ds, destPath) == Exists(as, ds, destPath)

\* lines 148-151
UpdatedNote(noteContent, posterPath, destPath) ==
    ReplaceMatch(noteContent, RegexFind(noteContent, PosterRegex(posterPath)),
                 <<"poster: ">> \o destPath)

\* line 154
FinalPosterPath(fileName) == <<"posters", Slash>> \o fileName

\* the result of a pass that touches nothing
Untouched(fs, as, ds) ==
    [fs |-> fs, as |-> as, ds |-> ds, moved |-> 0, ops |-> <<>>,
     file |-> "none", final |-> <<>>]

SkippedRewriting(movie, fs, as, ds, fileName) ==
    [Untouched(Modify(fs, movie.file,
                      UpdatedNote(fs[movie.file].content, movie.cache.poster.s,
                                  DestPath(fileName))), as, ds)
        EXCEPT !.final = FinalPosterPath(fileName)]

\* lines 137 and 154: the destination exists, only the reference is recorded
Skipped(movie, fs, as, ds, fileName) ==
    [Untouched(fs, as, ds) EXCEPT !.final = FinalPosterPath(fileName)]

\* lines 138-154: mkdir, rename, count, rewrite the note
Moved(movie, fs, as, ds, posterFile, fileName) ==
    LET posterPath == movie.cache.poster.s
        destPath == DestPath(fileName)
    IN [fs |-> Modify(fs, movie.file,
                      UpdatedNote(fs[movie.file].content, posterPath, destPath)),
        as |-> [as EXCEPT ![posterFile] = destPath],
        ds |-> ds \cup {DestDir(destPath)},
        moved |-> 1,
        ops |-> <<OpMkdir(DestDir(destPath)),
                  OpRename(posterPath, destPath),
                  OpModify(NotePath(fs[movie.file]))>>,
        file |-> posterFile,
        final |-> FinalPosterPath(fileName)]

\* lines 126-163: one pass of the loop, for movie, on the vault (fs, as, ds)
MoveOne(movie, fs, as, ds) ==
    LET posterPath == movie.cache.poster
        posterFile == IF Truthy(posterPath) /\ posterPath.t = "str"
                      THEN GetAbstractFileByPath(as, posterPath.s) ELSE "none"
    IN IF posterFile = "none" THEN Untouched(fs, as, ds)
       ELSE LET fileName == FileName(posterPath.s)
            IN IF DestExists(as, ds, DestPath(fileName))
               THEN Skipped(movie, fs, as, ds, fileName)
               ELSE Moved(movie, fs, as, ds, posterFile, fileName)

\* line 166
GridLine(m) == m.title \o <<Comma>> \o m.poster \o <<Comma>> \o ToStr(m.date)
NewLines(data) == JoinSeqs([i \in 1..Len(data) |-> GridLine(data[i])], <<NL>>)

\* line 167
UpdatedGridContent(existingContent, data) ==
    Trim(existingContent) \o <<NL>> \o NewLines(data)

\* line 168
UpdatedContent(text, data) ==
    LET m == GridBlockMatch(text)
        existingContent == IF m.found THEN m.groups[1] ELSE <<>>
    IN ReplaceMatch(text, m,
           <<Fence, "grid", NL>> \o UpdatedGridContent(existingContent, data)
           \o <<NL, Fence>>)

-----------------------------------------------------------------------------
(* The state machine                                                       *)

NoNotice == [kind |-> "none", added |-> 0, moved |-> 0]
Vault == [files |-> files, assets |-> assets, dirs |-> dirs]

Init ==
    /\ files \in InitFiles
    /\ assets = InitAssets
    /\ dirs = {}
    /\ pc = "idle"
    /\ listFile = 0
    /\ content = <<>>
    /\ newMovies = <<>>
    /\ k = 1
    /\ movedCount = 0
    /\ movieGridData = <<>>
    /\ seen = <<>>
    /\ notice = NoNotice
    /\ ops = <<>>
    /\ moves = [f \in FileIds |-> 0]
    /\ runs = 0
    /\ changes = 0
    /\ pre = Vault
    /\ repeat = FALSE
    /\ dirty = FALSE

\* the user adds a movie note, one of templates, between two runs
AddNoteOf(templates) ==
    /\ pc = "idle"
    /\ changes < MaxNotes
    /\ runs < MaxRuns
    /\ \E n \in templates :
          /\ \A i \in 1..Len(files) : NotePath(files[i]) # NotePath(n)
          /\ files' = Append(files, n)
    /\ changes' = changes + 1
    /\ dirty' = TRUE
    /\ UNCHANGED <<assets, dirs, pc, listFile, content, newMovies, k, movedCount,
                   movieGridData, seen, notice, ops, moves, runs, pre, repeat>>

\* lines 73-123: the command is run, up to the loop over the new movies
StartSync ==
    /\ pc = "idle"
    /\ runs < MaxRuns
    /\ LET all == AllMovies(files)
           lf == FindListFile(files)
           text == IF lf = 0 THEN <<>> ELSE files[lf].content
           m == GridBlockMatch(text)
           existingContent == IF m.found THEN m.groups[1] ELSE <<>>
           new == NewMovies(all, ExistingMovies(existingContent))
           out == Outcome(lf, m, new)
       IN /\ pc' = IF out = "go" THEN "moving" ELSE "idle"
          /\ notice' = IF out = "go" THEN NoNotice
                       ELSE [kind |-> out, added |-> 0, moved |-> 0]
          /\ listFile' = lf
          /\ content' = text
          /\ newMovies' = IF out = "go" THEN new ELSE <<>>
    /\ k' = 1
    /\ movedCount' = 0
    /\ movieGridData' = <<>>
    /\ seen' = <<>>
    /\ ops' = <<>>
    /\ runs' = runs + 1
    /\ pre' = Vault
    /\ repeat' = (runs >= 1 /\ ~dirty)
    /\ dirty' = FALSE
    /\ UNCHANGED <<files, assets, dirs, moves, changes>>

\* lines 125-163: one pass of the loop
MoveStep ==
    /\ pc = "moving"
    /\ k <= Len(newMovies)
    /\ LET movie == newMovies[k]
           r == MoveOne(movie, files, assets, dirs)
       IN /\ files' = r.fs
          /\ assets' = r.as
          /\ dirs' = r.ds
          /\ movedCount' = movedCount + r.moved
          /\ moves' = IF r.file = "none" THEN moves
                      ELSE [moves EXCEPT ![r.file] = @ + 1]
          /\ ops' = ops \o r.ops
          /\ movieGridData' = Append(movieGridData,
                 [title |-> movie.title, poster |-> r.final, date |-> movie.date])
          /\ seen' = Append(seen,
                 [resolved |-> /\ movie.cache.poster.t = "str"
                               /\ movie.cache.poster.s # <<>>
                               /\ \E f \in FileIds : assets[f] = movie.cache.poster.s,
                  destExisted |-> /\ movie.cache.poster.t = "str"
                                  /\ Exists(assets, dirs,
                                         DestPath(FileName(movie.cache.poster.s))),
                  ops |-> r.ops])
    /\ k' = k + 1
    /\ UNCHANGED <<pc, listFile, content, newMovies, notice, runs, changes, pre,
                   repeat, dirty>>

\* lines 165-172: the Index Note is written and the counts are reported
Finish ==
    /\ pc = "moving"
    /\ k > Len(newMovies)
    /\ files' = Modify(files, listFile, UpdatedContent(content, movieGridData))
    /\ ops' = Append(ops, OpModify(NotePath(files[listFile])))
    /\ notice' = [kind |-> "added", added |-> Len(newMovies), moved |-> movedCount]
    /\ pc' = "idle"
    /\ UNCHANGED <<assets, dirs, listFile, content, newMovies, k, movedCount,
                   movieGridData, seen, moves, runs, changes, pre, repeat, dirty>>

AddNote == AddNoteOf(NoteTemplates)

Next == AddNote \/ StartSync \/ MoveStep \/ Finish

Spec == Init /\ [][Next]_vars

\* the same machine on a vault whose titles, poster names and grid lines hold
\* no replacement pattern of String.prototype.replace
HasPattern(s) == \E i \in 1..Len(s) : s[i] \in {"$$", "$&", "$1"}
PlainTemplates ==
    {n \in NoteTemplates : ~HasPattern(n.basename) /\ ~HasPattern(n.cache.poster.s)}
InitPlain == Init /\ \A i \in 1..Len(files) : ~HasPattern(files[i].content)
AddPlainNote == AddNoteOf(PlainTemplates)
NextPlain == AddPlainNote \/ StartSync \/ MoveStep \/ Finish
SpecPlain == InitPlain /\ [][NextPlain]_vars

-----------------------------------------------------------------------------
(* What the properties read                                                *)

\* a run has ended and the vault is as the run left it
Done == pc = "idle" /\ runs >= 1 /\ ~dirty
\* the run wrote the Index Note
Wrote == Done /\ notice.kind = "added"

IndexNow == files[listFile].content
IndexBefore == pre.files[listFile].content

HasGridBlock(text) ==
    \E i \in 1..Len(text) : \E j \in (i + 3)..Len(text) :
        text[i] = Fence /\ text[i + 1] = "grid" /\ text[i + 2] = NL /\ text[j] = Fence

BlockLines(text) ==
    LET m == GridBlockMatch(text)
    IN IF m.found THEN Split(m.groups[1], NL) ELSE <<>>
RecordLines(text) == SelectSeq(BlockLines(text), LAMBDA l : Trim(l) # <<>>)
FirstField(line) == Split(line, Comma)[1]
InBlock(line) ==
    \E j \in 1..Len(BlockLines(IndexNow)) : BlockLines(IndexNow)[j] = line

UniqueTitles(text) ==
    LET ls == RecordLines(text)
    IN \A i, j \in 1..Len(ls) : FirstField(ls[i]) = FirstField(ls[j]) => i = j
TrimAll(ls) == [i \in 1..Len(ls) |-> Trim(ls[i])]

\* the date a record is to carry, from the dates of the note
ExpectedDate(dates) ==
    IF dates.t = "arr" /\ dates.a # <<>> THEN dates.a[1]
    ELSE IF dates.t = "str" THEN dates.s
    ELSE <<>>

BaseName(path) == SubSeq(path, LastIndexOf(path, Slash) + 1, Len(path))
Canonical(path) == postersDestDir \o <<Slash>> \o BaseName(path)
Relative(path) == <<"posters", Slash>> \o BaseName(path)

LiteralReplaceFirst(text, pat, new) ==
    LET i == IndexOf(text, pat, 1)
    IN IF i = 0 THEN text
       ELSE SubSeq(text, 1, i - 1) \o new \o SubSeq(text, i + Len(pat), Len(text))

Passes == 1..Len(newMovies)
OldPoster(i) == newMovies[i].cache.poster.s
NoteOf(i) == newMovies[i].file
RenamedIn(i) == \E j \in 1..Len(seen[i].ops) : seen[i].ops[j].op = "rename"
ExpectedRecord(i, poster) ==
    newMovies[i].title \o <<Comma>> \o poster \o <<Comma>> \o ToStr(newMovies[i].date)

-----------------------------------------------------------------------------
(* Properties                                                              *)

\* C1: when no note is named "list of all movies", or that note holds no
\* grid block, a run performs no vault operation, leaves every file, poster
\* and directory as it was, and only shows one of the two warnings.
C1_NoOpSafety ==
    LET idx == {i \in 1..Len(pre.files) : pre.files[i].basename = ListBasename}
    IN (Done /\ \A i \in idx : ~HasGridBlock(pre.files[i].content))
       => /\ ops = <<>>
          /\ Vault = pre
          /\ notice.kind \in {"nolist", "nogrid"}

\* a run ended with the missing-block warning although a movie note with a
\* poster that resolves was waiting to be added
C1_Witness ==
    /\ Done
    /\ notice.kind = "nogrid"
    /\ \E i \in 1..Len(files) :
          /\ Truthy(files[i].cache.isbn)
          /\ files[i].cache.poster.t = "str"
          /\ \E f \in FileIds : assets[f] = files[i].cache.poster.s

\* C2: a run that starts right after another run, with no change of the
\* vault in between, adds nothing, moves nothing and leaves the grid block
\* as the first run left it.
C2_Idempotent ==
    (Done /\ repeat)
    => /\ notice.added = 0
       /\ notice.moved = 0
       /\ listFile # 0 => BlockLines(IndexNow) = BlockLines(IndexBefore)

\* C3: after a run that wrote the Index Note, on a block whose titles were
\* unique, no two record lines of the block have the same first field.
C3_TitlesUnique ==
    (Wrote /\ UniqueTitles(IndexBefore)) => UniqueTitles(IndexNow)

\* C4: over all the runs, vault.rename is called at most once on each poster
\* file, and never on a poster that was at its canonical place from the start.
C4_MoveOnce ==
    \A f \in FileIds :
        /\ moves[f] <= 1
        /\ InitAssets[f] = Canonical(InitAssets[f]) => moves[f] = 0

\* a later run met, at its canonical place, the poster an earlier run moved
C4_Witness ==
    /\ Wrote
    /\ runs >= 2
    /\ moves["f1"] = 1
    /\ pre.assets["f1"] = Canonical(InitAssets["f1"])
    /\ \E i \in Passes :
          /\ seen[i].resolved
          /\ seen[i].destExisted
          /\ OldPoster(i) = pre.assets["f1"]

C6_FreshMove ==
    Wrote => \A i \in Passes :
        (seen[i].resolved /\ ~seen[i].destExisted)
        => /\ seen[i].ops = <<OpMkdir(postersDestDir),
                              OpRename(OldPoster(i), Canonical(OldPoster(i))),
                              OpModify(NotePath(files[NoteOf(i)]))>>
           /\ \E f \in FileIds : /\ pre.assets[f] = OldPoster(i)
                                 /\ assets[f] = Canonical(OldPoster(i))
           /\ files[NoteOf(i)].content
              = LiteralReplaceFirst(pre.files[NoteOf(i)].content,
                                    <<"poster: ">> \o OldPoster(i),
                                    <<"poster: ">> \o Canonical(OldPoster(i)))
           /\ InBlock(ExpectedRecord(i, Relative(OldPoster(i))))
           /\ notice.moved = Cardinality({j \in Passes : RenamedIn(j)})
           /\ RenamedIn(i)

C8_NoPoster ==
    Wrote => \A i \in Passes :
        ~seen[i].resolved
        => /\ seen[i].ops = <<>>
           /\ files[NoteOf(i)].content = pre.files[NoteOf(i)].content
           /\ InBlock(ExpectedRecord(i, <<>>))

\* C9: the date of a record is the first entry of dates when dates is a
\* sequence with an entry, dates itself when it is a string, and empty when
\* dates is absent or an empty sequence.
C9_DateField ==
    Wrote => \A i \in Passes :
        ToStr(movieGridData[i].date) = ExpectedDate(pre.files[NoteOf(i)].cache.dates)

\* C10: a run that writes the Index Note keeps the record lines of the block,
\* in order and ahead of the new ones, adds one line per new movie, leaves the
\* text around the block as it was, and writes the Index Note once, as the
\* last operation of the run.
C10_AppendOnly ==
    Wrote =>
        LET old == TrimAll(RecordLines(IndexBefore))
            new == TrimAll(RecordLines(IndexNow))
            mOld == GridBlockMatch(IndexBefore)
            mNew == GridBlockMatch(IndexNow)
            w == OpModify(NotePath(files[listFile]))
        IN /\ Len(new) = Len(old) + Len(newMovies)
           /\ SubSeq(new, 1, Len(old)) = old
           /\ mNew.found
           /\ SubSeq(IndexNow, 1, mNew.start - 1) = SubSeq(IndexBefore, 1, mOld.start - 1)
           /\ SubSeq(IndexNow, mNew.end + 1, Len(IndexNow))
              = SubSeq(IndexBefore, mOld.end + 1, Len(IndexBefore))
           /\ ops # <<>>
           /\ ops[Len(ops)] = w
           /\ \A j \in 1..(Len(ops) - 1) : ops[j] # w

====
